---- MODULE Spec2Model ----
(***************************************************************************)
(* Model of wgpu/src/triangle.rs: the growable GPU buffer (Buffer<T>) and  *)
(* the triangle pipeline (Pipeline::new, Pipeline::draw).                  *)
(*                                                                         *)
(* A GPU handle is the kind of the object and its serial number among the  *)
(* objects of that kind; `device` counts the objects created so far, kind  *)
(* by kind, so a created handle differs from every handle created before.  *)
(* Pipeline::draw is one action; the operations it performs on the device, *)
(* the staging belt, the encoder and the render pass are kept, in program  *)
(* order, in `recorded`.                                                   *)
(*                                                                         *)
(* Spec draws frames of a few small meshes, SpecGrowth frames around the   *)
(* first capacities of the buffers, and SpecBuffer calls Buffer::expand on *)
(* a buffer of its own.                                                    *)
(***************************************************************************)
EXTENDS Integers, Sequences, FiniteSets, TLC

VARIABLES
    device,            \* number of GPU objects created so far, by kind
    blit,              \* Pipeline.blit: "Some" with antialiasing, else "None"
    constants,         \* Pipeline.constants: the uniform bind group
    uniforms_buffer,   \* Pipeline.uniforms_buffer: Buffer<Uniforms>
    vertex_buffer,     \* Pipeline.vertex_buffer: Buffer<Vertex2D>
    index_buffer,      \* Pipeline.index_buffer: Buffer<u32>
    meshes,            \* argument of the last Pipeline::draw
    transformation,    \* argument of the last Pipeline::draw
    scale_factor,      \* argument of the last Pipeline::draw, in halves
    locals,            \* local variables of the last Pipeline::draw at its end
    recorded,          \* operations performed by the last Pipeline::draw
    buffer,            \* a stand-alone Buffer<T> (buffer specification)
    expand_call        \* the last Buffer::expand call on `buffer`

vars == <<device, blit, constants, uniforms_buffer, vertex_buffer,
          index_buffer, meshes, transformation, scale_factor, locals,
          recorded, buffer, expand_call>>

pipeline_vars == <<blit, constants, uniforms_buffer, vertex_buffer,
                   index_buffer, meshes, transformation, scale_factor,
                   locals, recorded>>

----------------------------------------------------------------------------
(* Program constants *)

UNIFORM_BUFFER_SIZE == 50
VERTEX_BUFFER_SIZE == 10000
INDEX_BUFFER_SIZE == 10000

\* mem::size_of::<Vertex2D>(): Float2 position at offset 0, Float4 color at
\* offset 4 * 2, four bytes per float.
SizeOfVertex2D == 4 * 2 + 4 * 4

\* mem::size_of::<u32>()
SizeOfU32 == 4

\* mem::size_of::<Uniforms>(): transform [f32; 16], _padding_a [f32; 32],
\* _padding_b [f32; 16].
SizeOfUniforms == 4 * (16 + 32 + 16)

\* The alignment the padding of Uniforms is there to reach.
UniformAlignment == 256

\* Size in bytes of the transform matrix, [f32; 16].
SizeOfTransform == 4 * 16

----------------------------------------------------------------------------
(* Bounds of the model *)

\* Longest mesh list of a frame of small meshes.
MaxHead == 2

\* How far past UNIFORM_BUFFER_SIZE the long frames go.
MaxPad == 1

\* Largest size requested from the stand-alone buffer.
MaxRequest == 5

----------------------------------------------------------------------------
(* Helpers *)

Max(a, b) == IF a < b THEN b ELSE a

Repeat(x, n) == [i \in 1..n |-> x]

RECURSIVE SeqsOfLen(_, _)
SeqsOfLen(S, n) ==
    IF n = 0 THEN {<<>>}
    ELSE {Append(s, x) : s \in SeqsOfLen(S, n - 1), x \in S}

SeqsUpTo(S, n) == UNION {SeqsOfLen(S, k) : k \in 0..n}

\* F of the value of x, with x evaluated once, before F is.
Then(x, F(_)) == CHOOSE r \in {F(v) : v \in {x}} : TRUE

\* A loop over seq[lo..hi] in order: acc is the state of the loop, and
\* Body(acc, i, x) the state after the body has run for element x, the
\* i-th from 0.  The range is halved to keep the evaluation shallow; the
\* elements are still visited from first to last, each half starting from
\* the state the one before it ended in.
RECURSIVE ForEach(_, _, _, _, _)
ForEach(Body(_, _, _), seq, lo, hi, acc) ==
    IF lo > hi THEN acc
    ELSE IF lo = hi THEN Body(acc, lo - 1, seq[lo])
    ELSE Then(ForEach(Body, seq, lo, (lo + hi) \div 2, acc),
              LAMBDA left :
                  ForEach(Body, seq, (lo + hi) \div 2 + 1, hi, left))

\* meshes.iter().map(..).fold((0, 0), ..): total vertices and indices.
Totals(ms) ==
    ForEach(LAMBDA acc, i, mesh :
                [total_v |-> acc.total_v + Len(mesh.buffers.vertices),
                 total_i |-> acc.total_i + Len(mesh.buffers.indices)],
            ms, 1, Len(ms), [total_v |-> 0, total_i |-> 0])

----------------------------------------------------------------------------
(* wgpu collaborators *)

UsageUniform == {"UNIFORM", "COPY_DST"}
UsageVertex == {"VERTEX", "COPY_DST"}
UsageIndex == {"INDEX", "COPY_DST"}

\* wgpu::BufferSize::new: None for zero, Some(n) otherwise.
BufferSizeNew(n) == IF n = 0 THEN [some |-> FALSE] ELSE [some |-> TRUE, get |-> n]

\* The kind of a buffer: what it is used for besides being copied to.
KindOf(usage) == CHOOSE k \in usage : k # "COPY_DST"

\* A device that has created nothing.
NewDevice == [UNIFORM |-> 0, VERTEX |-> 0, INDEX |-> 0, BIND_GROUP |-> 0]

\* The handle the device hands out next for an object of this kind.
Fresh(dev, kind) == <<kind, dev[kind] + 1>>

\* Device::create_buffer: a fresh handle and the device after the creation.
CreateBuffer(dev, size, usage) ==
    LET kind == KindOf(usage)
    IN  [device |-> [dev EXCEPT ![kind] = @ + 1],
         raw |-> Fresh(dev, kind),
         op |-> [op |-> "create_buffer", raw |-> Fresh(dev, kind),
                 size |-> size, usage |-> usage]]

\* Device::create_bind_group over buffer.slice(0..size_of::<Uniforms>()).
CreateBindGroup(dev, raw) ==
    [device |-> [dev EXCEPT !.BIND_GROUP = @ + 1],
     group |-> [id |-> Fresh(dev, "BIND_GROUP"), buffer |-> raw,
                start |-> 0, end |-> SizeOfUniforms],
     op |-> [op |-> "create_bind_group", id |-> Fresh(dev, "BIND_GROUP"),
             buffer |-> raw, start |-> 0, end |-> SizeOfUniforms]]

\* bytemuck::cast_slice / AsBytes::as_bytes: the same elements seen as bytes.
CastSlice(elems, elem_size) ==
    [len |-> elem_size * Len(elems), elem_size |-> elem_size, elems |-> elems]

----------------------------------------------------------------------------
(* Buffer<T> *)

BufferNew(dev, elem_size, size, usage) ==
    LET c == CreateBuffer(dev, elem_size * size, usage)
    IN  [device |-> c.device,
         self |-> [raw |-> c.raw, size |-> size, usage |-> usage,
                   elem_size |-> elem_size],
         ops |-> <<c.op>>]

\* Buffer::expand that takes any different size for a reason to resize.
ExpandToAnySize(self, dev, size) ==
    LET needs_resize == self.size # size
        c == CreateBuffer(dev, self.elem_size * size, self.usage)
    IN  IF needs_resize
        THEN [self |-> [self EXCEPT !.raw = c.raw, !.size = size],
              device |-> c.device, ret |-> TRUE, ops |-> <<c.op>>]
        ELSE [self |-> self, device |-> dev, ret |-> FALSE, ops |-> <<>>]

\* Buffer::expand that grows to at least twice the size it had.
ExpandDoubling(self, dev, size) ==
    LET needs_resize == self.size < size
        grown == Max(size, 2 * self.size)
        c == CreateBuffer(dev, self.elem_size * grown, self.usage)
    IN  IF needs_resize
        THEN [self |-> [self EXCEPT !.raw = c.raw, !.size = grown],
              device |-> c.device, ret |-> TRUE, ops |-> <<c.op>>]
        ELSE [self |-> self, device |-> dev, ret |-> FALSE, ops |-> <<>>]

\* Buffer::expand, were the buffer never replaced.
ExpandNever(self, dev, size) ==
    [self |-> self, device |-> dev, ret |-> FALSE, ops |-> <<>>]

\* Buffer::expand that resizes also when the size asked for is the size
\* it has.
ExpandWhenEqual(self, dev, size) ==
    LET needs_resize == self.size <= size
        c == CreateBuffer(dev, self.elem_size * size, self.usage)
    IN  IF needs_resize
        THEN [self |-> [self EXCEPT !.raw = c.raw, !.size = size],
              device |-> c.device, ret |-> TRUE, ops |-> <<c.op>>]
        ELSE [self |-> self, device |-> dev, ret |-> FALSE, ops |-> <<>>]

\* Buffer::expand: the buffer and device after the call, the value returned
\* and the device operations performed.
Expand(self, dev, size) ==
    LET needs_resize == self.size < size
        c == CreateBuffer(dev, self.elem_size * size, self.usage)
    IN  IF needs_resize
        THEN [self |-> [self EXCEPT !.raw = c.raw, !.size = size],
              device |-> c.device, ret |-> TRUE, ops |-> <<c.op>>]
        ELSE [self |-> self, device |-> dev, ret |-> FALSE, ops |-> <<>>]

----------------------------------------------------------------------------
(* Transformation, Rectangle and Uniforms *)

\* Transformation: a scale and a translation of the plane.
Identity == [sx |-> 1, sy |-> 1, tx |-> 0, ty |-> 0]

\* Transformation::translate
Translate(x, y) == [sx |-> 1, sy |-> 1, tx |-> x, ty |-> y]

\* Mul for Transformation: a * b applies b first, then a.
Mul(a, b) ==
    [sx |-> a.sx * b.sx, sy |-> a.sy * b.sy,
     tx |-> a.sx * b.tx + a.tx, ty |-> a.sy * b.ty + a.ty]

\* From<Transformation> for [f32; 16]: the matrix, column by column.
IntoArray(t) ==
    <<t.sx, 0, 0, 0,  0, t.sy, 0, 0,  0, 0, 1, 0,  t.tx, t.ty, 0, 1>>

\* Uniforms without the second padding field.
UniformsFromShortPadding(t) ==
    [transform |-> IntoArray(t),
     padding_a |-> Repeat(0, 32),
     padding_b |-> <<>>]

\* From<Transformation> for Uniforms
UniformsFrom(t) ==
    [transform |-> IntoArray(t),
     padding_a |-> Repeat(0, 32),
     padding_b |-> Repeat(0, 16)]

\* Number of bytes one Uniforms value takes in a byte slice.
BytesOfUniforms(u) ==
    4 * (Len(u.transform) + Len(u.padding_a) + Len(u.padding_b))

\* (Rectangle<f32> * f32).snap(), the scale factor given in halves: each
\* field is scaled, then cast to u32.
SnapScaled(r, halves) ==
    [x |-> (r.x * halves) \div 2,
     y |-> (r.y * halves) \div 2,
     width |-> (r.width * halves) \div 2,
     height |-> (r.height * halves) \div 2]

----------------------------------------------------------------------------
(* Inputs of Pipeline::draw *)

Vertex(x, y, c) == [position |-> <<x, y>>, color |-> c]

Mesh(o, vs, is, clip) ==
    [origin |-> o, buffers |-> [vertices |-> vs, indices |-> is],
     clip_bounds |-> clip]

MeshA ==
    Mesh([x |-> 0, y |-> 0],
         <<Vertex(0, 0, 1), Vertex(4, 0, 1), Vertex(0, 4, 1)>>,
         <<0, 1, 2>>,
         [x |-> 0, y |-> 0, width |-> 100, height |-> 100])

MeshB ==
    Mesh([x |-> 10, y |-> 10],
         <<Vertex(1, 1, 2)>>,
         <<0, 0, 0>>,
         [x |-> 0, y |-> 0, width |-> 50, height |-> 50])

\* Degenerate: vertices but no indices.
MeshNoIndices ==
    Mesh([x |-> 5, y |-> 0],
         <<Vertex(2, 2, 3), Vertex(3, 3, 3)>>,
         <<>>,
         [x |-> 1, y |-> 1, width |-> 7, height |-> 7])

\* Degenerate: indices but no vertices.
MeshNoVertices ==
    Mesh([x |-> 0, y |-> 5],
         <<>>,
         <<0, 0>>,
         [x |-> 2, y |-> 2, width |-> 9, height |-> 9])

\* As many vertices as the vertex buffer holds at first.
MeshManyVertices ==
    Mesh([x |-> 3, y |-> 3],
         Repeat(Vertex(6, 6, 4), VERTEX_BUFFER_SIZE),
         <<0, 1, 2>>,
         [x |-> 3, y |-> 3, width |-> 11, height |-> 11])

\* As many indices as the index buffer holds at first.
MeshManyIndices ==
    Mesh([x |-> 4, y |-> 4],
         <<Vertex(7, 7, 5), Vertex(8, 8, 5)>>,
         Repeat(1, INDEX_BUFFER_SIZE),
         [x |-> 4, y |-> 4, width |-> 13, height |-> 13])

MeshPool == {MeshA, MeshB, MeshNoIndices, MeshNoVertices}

\* The mesh lists of frames that fit the buffers as first allocated: every
\* list of at most MaxHead pool meshes.
Frames == SeqsUpTo(MeshPool, MaxHead)

LargeMeshes == {MeshManyVertices, MeshManyIndices}

\* A large mesh alone, or followed by one small mesh.
LargeFrames ==
    {<<b>> \o t : b \in LargeMeshes,
                  t \in {<<>>, <<MeshB>>, <<MeshNoIndices>>}}

\* Lists about as long as the uniform buffer holds at first.
LongFrames ==
    {<<h>> \o Repeat(MeshB, UNIFORM_BUFFER_SIZE - 1 + p) :
        h \in {MeshB, MeshNoIndices}, p \in 0..MaxPad}

\* The mesh lists of frames around the first capacities of the buffers.
GrowthFrames == LargeFrames \cup LongFrames \cup {<<>>, <<MeshB>>}

\* The ambient transformations a frame is drawn with.
Transformations == {Identity, [sx |-> 2, sy |-> 3, tx |-> 1, ty |-> 0]}

\* Scale factors 1.0 and 1.5, in halves.
ScaleFactors == {2, 3}

----------------------------------------------------------------------------
(* Pipeline::new *)

PipelineNew(dev, antialiasing) ==
    LET cb == BufferNew(dev, SizeOfUniforms, UNIFORM_BUFFER_SIZE, UsageUniform)
        bg == CreateBindGroup(cb.device, cb.self.raw)
        vb == BufferNew(bg.device, SizeOfVertex2D, VERTEX_BUFFER_SIZE,
                        UsageVertex)
        ib == BufferNew(vb.device, SizeOfU32, INDEX_BUFFER_SIZE, UsageIndex)
    IN  [device |-> ib.device,
         blit |-> IF antialiasing THEN "Some" ELSE "None",
         constants |-> bg.group,
         uniforms_buffer |-> cb.self,
         vertex_buffer |-> vb.self,
         index_buffer |-> ib.self]

----------------------------------------------------------------------------
(* Pipeline::draw *)

\* staging_belt.write_buffer(encoder, raw, offset, size, device) followed by
\* copy_from_slice(bytes).
WriteBuffer(raw, offset, size, bytes) ==
    [op |-> "write_buffer", buffer |-> raw, offset |-> offset,
     size |-> size, data |-> bytes]

\* The body of the upload loop, were the vertices moved by the origin of
\* the mesh before they are written.
UploadMeshShifted(acc, mesh, t, vraw, iraw) ==
    LET transform ==
            UniformsFrom(Mul(t, Translate(mesh.origin.x, mesh.origin.y)))
        shifted ==
            [k \in DOMAIN mesh.buffers.vertices |->
                [mesh.buffers.vertices[k] EXCEPT
                    !.position = <<@[1] + mesh.origin.x,
                                   @[2] + mesh.origin.y>>]]
        vertices == CastSlice(shifted, SizeOfVertex2D)
        indices == CastSlice(mesh.buffers.indices, SizeOfU32)
        vertices_size == BufferSizeNew(vertices.len)
        indices_size == BufferSizeNew(indices.len)
    IN  IF vertices_size.some /\ indices_size.some
        THEN [ops |-> acc.ops \o
                <<WriteBuffer(vraw, SizeOfVertex2D * acc.last_vertex,
                              vertices_size.get, vertices),
                  WriteBuffer(iraw, SizeOfU32 * acc.last_index,
                              indices_size.get, indices)>>,
              uniforms |-> Append(acc.uniforms, transform),
              offsets |-> Append(acc.offsets,
                [vertex_offset |-> acc.last_vertex,
                 index_offset |-> acc.last_index,
                 indices |-> Len(mesh.buffers.indices)]),
              last_vertex |-> acc.last_vertex + Len(mesh.buffers.vertices),
              last_index |-> acc.last_index + Len(mesh.buffers.indices)]
        ELSE acc

\* The body of the upload loop, were the uniform block of a mesh collected
\* also when the mesh is not uploaded.
UploadMeshUniformAlways(acc, mesh, t, vraw, iraw) ==
    LET transform ==
            UniformsFrom(Mul(t, Translate(mesh.origin.x, mesh.origin.y)))
        vertices == CastSlice(mesh.buffers.vertices, SizeOfVertex2D)
        indices == CastSlice(mesh.buffers.indices, SizeOfU32)
        vertices_size == BufferSizeNew(vertices.len)
        indices_size == BufferSizeNew(indices.len)
    IN  IF vertices_size.some /\ indices_size.some
        THEN [ops |-> acc.ops \o
                <<WriteBuffer(vraw, SizeOfVertex2D * acc.last_vertex,
                              vertices_size.get, vertices),
                  WriteBuffer(iraw, SizeOfU32 * acc.last_index,
                              indices_size.get, indices)>>,
              uniforms |-> Append(acc.uniforms, transform),
              offsets |-> Append(acc.offsets,
                [vertex_offset |-> acc.last_vertex,
                 index_offset |-> acc.last_index,
                 indices |-> Len(mesh.buffers.indices)]),
              last_vertex |-> acc.last_vertex + Len(mesh.buffers.vertices),
              last_index |-> acc.last_index + Len(mesh.buffers.indices)]
        ELSE [acc EXCEPT !.uniforms = Append(@, transform)]

\* The body of the upload loop for one mesh; acc holds uniforms, offsets,
\* the two cursors and the writes requested so far.
UploadMesh(acc, mesh, t, vraw, iraw) ==
    LET transform ==
            UniformsFrom(Mul(t, Translate(mesh.origin.x, mesh.origin.y)))
        vertices == CastSlice(mesh.buffers.vertices, SizeOfVertex2D)
        indices == CastSlice(mesh.buffers.indices, SizeOfU32)
        vertices_size == BufferSizeNew(vertices.len)
        indices_size == BufferSizeNew(indices.len)
    IN  IF vertices_size.some /\ indices_size.some
        THEN [ops |-> acc.ops \o
                <<WriteBuffer(vraw, SizeOfVertex2D * acc.last_vertex,
                              vertices_size.get, vertices),
                  WriteBuffer(iraw, SizeOfU32 * acc.last_index,
                              indices_size.get, indices)>>,
              uniforms |-> Append(acc.uniforms, transform),
              offsets |-> Append(acc.offsets,
                [vertex_offset |-> acc.last_vertex,
                 index_offset |-> acc.last_index,
                 indices |-> Len(mesh.buffers.indices)]),
              last_vertex |-> acc.last_vertex + Len(mesh.buffers.vertices),
              last_index |-> acc.last_index + Len(mesh.buffers.indices)]
        ELSE acc

\* for mesh in meshes { .. }
UploadLoop(ms, t, vraw, iraw) ==
    ForEach(LAMBDA acc, i, mesh : UploadMesh(acc, mesh, t, vraw, iraw),
            ms, 1, Len(ms),
            [ops |-> <<>>, uniforms |-> <<>>, offsets |-> <<>>,
             last_vertex |-> 0, last_index |-> 0])

\* uniforms.as_bytes()
UniformsAsBytes(uniforms) ==
    [len |-> IF uniforms = <<>> THEN 0
             ELSE BytesOfUniforms(uniforms[1]) * Len(uniforms),
     elem_size |-> SizeOfUniforms, elems |-> uniforms]

\* The write of the packed uniforms, requested whatever their length.
UniformWriteAlways(uraw, uniforms) ==
    LET bytes == UniformsAsBytes(uniforms)
    IN  <<WriteBuffer(uraw, 0, bytes.len, bytes)>>

\* The write of the packed uniforms, if there is anything to write.
UniformWrite(uraw, uniforms) ==
    LET bytes == UniformsAsBytes(uniforms)
        uniforms_size == BufferSizeNew(bytes.len)
    IN  IF uniforms_size.some
        THEN <<WriteBuffer(uraw, 0, uniforms_size.get, bytes)>>
        ELSE <<>>

\* The choice of attachment, resolve target and load operation, with the
\* call of blit.targets it makes.
Attachment(b, target_width, target_height) ==
    IF b = "Some"
    THEN [ops |-> <<[op |-> "blit.targets", width |-> target_width,
                     height |-> target_height]>>,
          attachment |-> "blit.attachment",
          resolve_target |-> "blit.resolve_target",
          load |-> [kind |-> "Clear", r |-> 0, g |-> 0, b |-> 0, a |-> 0]]
    ELSE [ops |-> <<>>,
          attachment |-> "target", resolve_target |-> "None",
          load |-> [kind |-> "Load"]]

\* The body of the draw loop, were every draw issued with base vertex 0.
DrawMeshBaseZero(ms, sf, group, vraw, iraw, i, o) ==
    LET clip_bounds == SnapScaled(ms[i + 1].clip_bounds, sf)
    IN  <<[op |-> "set_scissor_rect", x |-> clip_bounds.x,
           y |-> clip_bounds.y, width |-> clip_bounds.width,
           height |-> clip_bounds.height],
          [op |-> "set_bind_group", index |-> 0, group |-> group,
           offset |-> SizeOfUniforms * i],
          [op |-> "set_index_buffer", buffer |-> iraw],
          [op |-> "set_vertex_buffer", slot |-> 0, buffer |-> vraw],
          [op |-> "draw_indexed", first |-> o.index_offset,
           end |-> o.index_offset + o.indices,
           base_vertex |-> 0]>>

\* The body of the draw loop for entry i (from 0) of offsets.  The casts to
\* u32 and i32 keep the value: the offsets reached here are far below 2^31.
DrawMesh(ms, sf, group, vraw, iraw, i, o) ==
    LET clip_bounds == SnapScaled(ms[i + 1].clip_bounds, sf)
    IN  <<[op |-> "set_scissor_rect", x |-> clip_bounds.x,
           y |-> clip_bounds.y, width |-> clip_bounds.width,
           height |-> clip_bounds.height],
          [op |-> "set_bind_group", index |-> 0, group |-> group,
           offset |-> SizeOfUniforms * i],
          [op |-> "set_index_buffer", buffer |-> iraw],
          [op |-> "set_vertex_buffer", slot |-> 0, buffer |-> vraw],
          [op |-> "draw_indexed", first |-> o.index_offset,
           end |-> o.index_offset + o.indices,
           base_vertex |-> o.vertex_offset]>>

\* for (i, (vertex_offset, index_offset, indices)) in
\*     offsets.into_iter().enumerate() { .. }
DrawLoop(ms, sf, group, vraw, iraw, offsets) ==
    ForEach(LAMBDA acc, i, o :
                acc \o DrawMesh(ms, sf, group, vraw, iraw, i, o),
            offsets, 1, Len(offsets), <<>>)

\* The render pass, were the pipeline set after the draw loop.
RenderPassPipelineLast(b, ms, sf, group, vraw, iraw, offsets) ==
    LET a == Attachment(b, 0, 0)
    IN  a.ops
        \o <<[op |-> "begin_render_pass", attachment |-> a.attachment,
              resolve_target |-> a.resolve_target, load |-> a.load,
              store |-> TRUE]>>
        \o DrawLoop(ms, sf, group, vraw, iraw, offsets)
        \o <<[op |-> "set_pipeline"], [op |-> "end_render_pass"]>>

\* The render pass: begin, set_pipeline, the draw loop, and the end of the
\* pass when render_pass goes out of scope.
RenderPass(b, ms, sf, group, vraw, iraw, offsets) ==
    LET a == Attachment(b, 0, 0)
    IN  a.ops
        \o <<[op |-> "begin_render_pass", attachment |-> a.attachment,
              resolve_target |-> a.resolve_target, load |-> a.load,
              store |-> TRUE],
             [op |-> "set_pipeline"]>>
        \o DrawLoop(ms, sf, group, vraw, iraw, offsets)
        \o <<[op |-> "end_render_pass"]>>

\* A resolve invoked whether or not there is a blit.
BlitDrawAlways(b) == <<[op |-> "blit.draw", target |-> "target"]>>

\* The resolve after the render pass.
BlitDraw(b) ==
    IF b = "Some" THEN <<[op |-> "blit.draw", target |-> "target"]>>
    ELSE <<>>

\* The bind group recreated over the handle the group held refers to.
RebindOldBuffer(dev, resized, raw, group) ==
    LET bg == CreateBindGroup(dev, group.buffer)
    IN  IF resized
        THEN [device |-> bg.device, constants |-> bg.group, ops |-> <<bg.op>>]
        ELSE [device |-> dev, constants |-> group, ops |-> <<>>]

\* The bind group held is kept also when the uniforms buffer was resized.
RebindNever(dev, resized, raw, group) ==
    [device |-> dev, constants |-> group, ops |-> <<>>]

\* The bind group after the uniforms buffer was asked to expand: a new one
\* over the new handle if the buffer was resized, else the one held.
RebindConstants(dev, resized, raw, group) ==
    LET bg == CreateBindGroup(dev, raw)
    IN  IF resized
        THEN [device |-> bg.device, constants |-> bg.group, ops |-> <<bg.op>>]
        ELSE [device |-> dev, constants |-> group, ops |-> <<>>]

\* The start of Pipeline::draw: the totals, the three expand calls and the
\* new bind group if the uniforms buffer was resized.
Grow(dev, group, ub, vb, ib, ms) ==
    Then(Totals(ms), LAMBDA totals :
        LET ev == Expand(vb, dev, totals.total_v)
            ei == Expand(ib, ev.device, totals.total_i)
            eu == Expand(ub, ei.device, Len(ms))
            rb == RebindConstants(eu.device, eu.ret, eu.self.raw, group)
        IN  [device |-> rb.device,
             constants |-> rb.constants,
             uniforms_buffer |-> eu.self,
             vertex_buffer |-> ev.self,
             index_buffer |-> ei.self,
             total_vertices |-> totals.total_v,
             total_indices |-> totals.total_i,
             uniforms_resized |-> eu.ret,
             ops |-> ev.ops \o ei.ops \o eu.ops \o rb.ops])

\* Pipeline::draw as a whole: the pipeline after the call, the locals at the
\* end of the call and the operations performed, in order.
DrawResult(dev, b, group, ub, vb, ib, ms, t, sf) ==
    Then(Grow(dev, group, ub, vb, ib, ms), LAMBDA g :
    Then(UploadLoop(ms, t, g.vertex_buffer.raw, g.index_buffer.raw),
         LAMBDA up :
        [device |-> g.device,
         constants |-> g.constants,
         uniforms_buffer |-> g.uniforms_buffer,
         vertex_buffer |-> g.vertex_buffer,
         index_buffer |-> g.index_buffer,
         locals |-> [total_vertices |-> g.total_vertices,
                     total_indices |-> g.total_indices,
                     uniforms_resized |-> g.uniforms_resized,
                     uniforms |-> up.uniforms,
                     offsets |-> up.offsets,
                     last_vertex |-> up.last_vertex,
                     last_index |-> up.last_index],
         recorded |->
            g.ops
            \o up.ops
            \o UniformWrite(g.uniforms_buffer.raw, up.uniforms)
            \o RenderPass(b, ms, sf, g.constants, g.vertex_buffer.raw,
                          g.index_buffer.raw, up.offsets)
            \o BlitDraw(b)]))

----------------------------------------------------------------------------
(* The pipeline: construction, then any sequence of frames *)

NoLocals ==
    [total_vertices |-> 0, total_indices |-> 0, uniforms_resized |-> FALSE,
     uniforms |-> <<>>, offsets |-> <<>>, last_vertex |-> 0,
     last_index |-> 0]

NoCall == [called |-> FALSE]

InitPipeline(antialiasing) ==
    LET p == PipelineNew(NewDevice, antialiasing)
    IN  /\ device = p.device
        /\ blit = p.blit
        /\ constants = p.constants
        /\ uniforms_buffer = p.uniforms_buffer
        /\ vertex_buffer = p.vertex_buffer
        /\ index_buffer = p.index_buffer
        /\ meshes = <<>>
        /\ transformation = Identity
        /\ scale_factor = 2
        /\ locals = NoLocals
        /\ recorded = <<>>

Init ==
    /\ \E antialiasing \in BOOLEAN : InitPipeline(antialiasing)
    /\ buffer = uniforms_buffer
    /\ expand_call = NoCall

Draw(ms, t, sf) ==
    \E r \in {DrawResult(device, blit, constants, uniforms_buffer,
                          vertex_buffer, index_buffer, ms, t, sf)} :
        /\ device' = r.device
        /\ constants' = r.constants
        /\ uniforms_buffer' = r.uniforms_buffer
        /\ vertex_buffer' = r.vertex_buffer
        /\ index_buffer' = r.index_buffer
        /\ meshes' = ms
        /\ transformation' = t
        /\ scale_factor' = sf
        /\ locals' = r.locals
        /\ recorded' = r.recorded
        /\ UNCHANGED <<blit, buffer, expand_call>>

Next ==
    \E ms \in Frames, t \in Transformations, sf \in ScaleFactors :
        Draw(ms, t, sf)

Spec == Init /\ [][Next]_vars

\* The same pipeline drawn with frames that outgrow its buffers.
NextGrowth == \E ms \in GrowthFrames : Draw(ms, Identity, 2)

SpecGrowth == Init /\ [][NextGrowth]_vars

----------------------------------------------------------------------------
(* A stand-alone buffer under any sequence of Buffer::expand calls *)

InitSizes == 0..2

Usages == {UsageUniform, UsageVertex, UsageIndex}

InitBuffer ==
    /\ \E size \in InitSizes, usage \in Usages :
           LET p == PipelineNew(NewDevice, FALSE)
               b == BufferNew(p.device, SizeOfU32, size, usage)
           IN  /\ device = b.device
               /\ buffer = b.self
               /\ blit = p.blit
               /\ constants = p.constants
               /\ uniforms_buffer = p.uniforms_buffer
               /\ vertex_buffer = p.vertex_buffer
               /\ index_buffer = p.index_buffer
    /\ meshes = <<>>
    /\ transformation = Identity
    /\ scale_factor = 2
    /\ locals = NoLocals
    /\ recorded = <<>>
    /\ expand_call = NoCall

\* One call buffer.expand(device, size).
ExpandCall(size) ==
    LET e == Expand(buffer, device, size)
    IN  /\ buffer' = e.self
        /\ device' = e.device
        /\ expand_call' = [called |-> TRUE, size |-> size, ret |-> e.ret,
                           before |-> buffer, created |-> e.ops]
        /\ UNCHANGED pipeline_vars

NextBuffer == \E size \in 0..MaxRequest : ExpandCall(size)

SpecBuffer == InitBuffer /\ [][NextBuffer]_vars

----------------------------------------------------------------------------
(* Properties of Buffer::expand (specification SpecBuffer) *)

\* C3: after every Buffer::expand call the recorded size of the buffer is
\* the larger of the size it had before the call and the size asked for, so
\* the size never decreases.
C3_SizeIsMax ==
    expand_call.called =>
        /\ buffer.size = Max(expand_call.before.size, expand_call.size)
        /\ buffer.size >= expand_call.before.size

\* A call that asked for less than the buffer had, after the buffer had
\* grown.
C3_Witness ==
    /\ expand_call.called
    /\ expand_call.size < expand_call.before.size
    /\ expand_call.before.raw[2] > 2

\* C4: Buffer::expand(requested) returns true exactly when requested is
\* greater than the size; then the handle is replaced by a newly created
\* buffer of exactly requested elements, with the same usage; otherwise
\* handle, size and usage are as before and nothing is created.
C4_ExpandEffect ==
    expand_call.called =>
        LET before == expand_call.before
            kind == KindOf(before.usage)
        IN  /\ expand_call.ret <=> expand_call.size > before.size
            /\ expand_call.ret =>
                 /\ buffer.size = expand_call.size
                 /\ buffer.usage = before.usage
                 /\ buffer.raw # before.raw
                 /\ buffer.raw = <<kind, device[kind]>>
                 /\ buffer.raw[2] > before.raw[2]
                 /\ expand_call.created =
                      <<[op |-> "create_buffer", raw |-> buffer.raw,
                         size |-> before.elem_size * expand_call.size,
                         usage |-> before.usage]>>
            /\ ~expand_call.ret =>
                 /\ buffer = before
                 /\ expand_call.created = <<>>

\* A call that grew a buffer of at least one element to more than that but
\* less than twice that.
C4_Witness ==
    /\ expand_call.called
    /\ expand_call.ret
    /\ expand_call.before.size >= 2
    /\ expand_call.size < 2 * expand_call.before.size

----------------------------------------------------------------------------
(* What a frame recorded *)

\* A call of Pipeline::draw has returned (every call begins a render pass).
Drawn == recorded # <<>>

\* The positions in `recorded` of the operations of one kind.
OpsAt(kind) == {j \in DOMAIN recorded : recorded[j].op = kind}

\* The operations of one kind, in the order recorded.
OpsOf(kind) == SelectSeq(recorded, LAMBDA r : r.op = kind)

\* The meshes of the frame that have both vertices and indices, by position
\* in the input, in input order.
NonEmptyMeshes ==
    SelectSeq([k \in 1..Len(meshes) |-> k],
              LAMBDA k : /\ meshes[k].buffers.vertices # <<>>
                         /\ meshes[k].buffers.indices # <<>>)

----------------------------------------------------------------------------
(* Properties of one frame (specification Spec) *)

\* C1: the frame issues as many scissor / bind-group / draw_indexed triples
\* as there are input meshes, and collects a uniform block for every mesh,
\* also for meshes without indices or without vertices.
C1_TriplePerMesh ==
    Drawn =>
        /\ Len(OpsOf("set_scissor_rect")) = Len(meshes)
        /\ Len(OpsOf("set_bind_group")) = Len(meshes)
        /\ Len(OpsOf("draw_indexed")) = Len(meshes)
        /\ Len(locals.uniforms) = Len(meshes)

\* C5: after the upload loop the vertex cursor equals the total number of
\* vertices of the input meshes and the index cursor the total number of
\* indices.
C5_CursorsReachTotals ==
    Drawn =>
        /\ locals.last_vertex = locals.total_vertices
        /\ locals.last_index = locals.total_indices

\* C6: the scissor rectangle set before the k-th draw call is the clip
\* rectangle, scaled and snapped, of the mesh whose index range that draw
\* call draws: the k-th mesh that was uploaded.
C6_ScissorOfDrawnMesh ==
    Drawn =>
        /\ Len(OpsOf("set_scissor_rect")) = Len(OpsOf("draw_indexed"))
        /\ Len(OpsOf("draw_indexed")) = Len(NonEmptyMeshes)
        /\ \A k \in 1..Len(NonEmptyMeshes) :
              LET mesh == meshes[NonEmptyMeshes[k]]
                  with == SnapScaled(mesh.clip_bounds, scale_factor)
                  rect == OpsOf("set_scissor_rect")[k]
                  draw == OpsOf("draw_indexed")[k]
              IN  /\ draw.end - draw.first = Len(mesh.buffers.indices)
                  /\ rect.x = with.x
                  /\ rect.y = with.y
                  /\ rect.width = with.width
                  /\ rect.height = with.height

\* C7: the uniform blocks are written by one write that starts at byte 0
\* and is as long as the blocks together; every block takes
\* size_of(Uniforms) bytes, so the n-th lies at n * size_of(Uniforms), which
\* is the dynamic offset bound for the n-th draw; and size_of(Uniforms) is a
\* multiple of the alignment and not less than the transform matrix.
C7_UniformLayout ==
    Drawn =>
        LET writes == SelectSeq(OpsOf("write_buffer"),
                                LAMBDA w : w.buffer = uniforms_buffer.raw)
            binds == OpsOf("set_bind_group")
        IN  /\ Len(writes) <= 1
            /\ Len(writes) = 0 <=> locals.uniforms = <<>>
            /\ \A j \in DOMAIN writes :
                  /\ writes[j].offset = 0
                  /\ writes[j].data.elems = locals.uniforms
                  /\ writes[j].size = SizeOfUniforms * Len(locals.uniforms)
            /\ \A n \in DOMAIN locals.uniforms :
                  /\ BytesOfUniforms(locals.uniforms[n]) = SizeOfUniforms
                  /\ 4 * Len(locals.uniforms[n].transform) = SizeOfTransform
            /\ Len(binds) = Len(locals.uniforms)
            /\ \A n \in DOMAIN binds :
                  binds[n].offset = (n - 1) * SizeOfUniforms
            /\ SizeOfUniforms % UniformAlignment = 0
            /\ SizeOfUniforms >= SizeOfTransform

\* A frame that uploaded two uniform blocks.
C7_Witness == Drawn /\ Len(locals.uniforms) = 2

\* C8: every call begins exactly one render pass.  Without antialiasing it
\* targets the output with LoadOp::Load and no resolve target, and the
\* resolve is never invoked; with antialiasing it targets the attachment
\* obtained from blit.targets, cleared to (0, 0, 0, 0), and exactly one
\* resolve follows the end of the pass.
C8_OneRenderPass ==
    Drawn =>
        LET begins == OpsOf("begin_render_pass")
            begin == begins[1]
        IN  /\ Len(begins) = 1
            /\ Len(OpsOf("end_render_pass")) = 1
            /\ blit = "None" =>
                 /\ begin.attachment = "target"
                 /\ begin.load = [kind |-> "Load"]
                 /\ begin.resolve_target = "None"
                 /\ OpsAt("blit.draw") = {}
                 /\ OpsAt("blit.targets") = {}
            /\ blit = "Some" =>
                 /\ begin.attachment = "blit.attachment"
                 /\ begin.load =
                      [kind |-> "Clear", r |-> 0, g |-> 0, b |-> 0, a |-> 0]
                 /\ Cardinality(OpsAt("blit.targets")) = 1
                 /\ \A j \in OpsAt("blit.targets") :
                       \A k \in OpsAt("begin_render_pass") : j < k
                 /\ Cardinality(OpsAt("blit.draw")) = 1
                 /\ \A j \in OpsAt("blit.draw") :
                       /\ recorded[j].target = "target"
                       /\ \A k \in OpsAt("end_render_pass") : k < j

\* A frame without meshes drawn by a pipeline with antialiasing.
C8_Witness == Drawn /\ blit = "Some" /\ meshes = <<>>

\* What the writes of a frame leave in the buffer `raw`, element by element
\* from element 0: the writes applied in order.  A write that starts past
\* the end of what was written so far would leave a gap: it is not applied,
\* and `gap` tells that there was one.
Overlay(w, at, elems) ==
    IF at > Len(w.mem) THEN [w EXCEPT !.gap = TRUE]
    ELSE [w EXCEPT !.mem =
            [k \in 1..Max(Len(w.mem), at + Len(elems)) |->
                IF k > at /\ k <= at + Len(elems) THEN elems[k - at]
                ELSE w.mem[k]]]

Written(raw) ==
    ForEach(LAMBDA w, i, r :
                IF r.op = "write_buffer" /\ r.buffer = raw
                THEN Overlay(w, r.offset \div r.data.elem_size, r.data.elems)
                ELSE w,
            recorded, 1, Len(recorded), [mem |-> <<>>, gap |-> FALSE])

\* The vertices (f = "vertices") or indices (f = "indices") of the meshes
\* with both vertices and indices, one mesh after the other in input order.
Concatenated(f) ==
    ForEach(LAMBDA acc, i, k : acc \o meshes[k].buffers[f],
            NonEmptyMeshes, 1, Len(NonEmptyMeshes), <<>>)

\* C10: after the uploads of a frame the vertex buffer holds, from byte 0,
\* the vertices of the uploaded meshes in input order, and the index buffer
\* their indices, each as given in the mesh (positions not moved by the
\* origin, indices not rebased); every write starts and ends on an element
\* boundary.
C10_BuffersHoldMeshData ==
    Drawn =>
        /\ \A j \in OpsAt("write_buffer") :
              /\ recorded[j].offset % recorded[j].data.elem_size = 0
              /\ recorded[j].size =
                   recorded[j].data.elem_size * Len(recorded[j].data.elems)
        /\ Written(vertex_buffer.raw) =
             [mem |-> Concatenated("vertices"), gap |-> FALSE]
        /\ Written(index_buffer.raw) =
             [mem |-> Concatenated("indices"), gap |-> FALSE]

\* A frame of two meshes, the second with an origin other than (0, 0) and
\* after a mesh with more than one vertex.
C10_Witness == Drawn /\ meshes = <<MeshA, MeshB>>

\* The number of vertices (f = "vertices") or indices (f = "indices") of the
\* uploaded meshes before the k-th of them.
UploadedBefore(k, f) ==
    ForEach(LAMBDA n, i, m : n + Len(meshes[m].buffers[f]),
            NonEmptyMeshes, 1, k - 1, 0)

\* C11: the frame issues one draw for every uploaded mesh, and the uniform
\* block at the dynamic offset bound for the k-th draw, in the uniform
\* buffer the bound group refers to, holds the ambient transformation
\* composed with the translation by the origin of the k-th uploaded mesh,
\* the mesh whose indices the k-th draw reads; also when meshes without
\* vertices or without indices were skipped.
C11_UniformOfDrawnMesh ==
    Drawn =>
        LET binds == OpsOf("set_bind_group")
            draws == OpsOf("draw_indexed")
        IN  /\ Len(draws) = Len(NonEmptyMeshes)
            /\ Len(binds) = Len(NonEmptyMeshes)
            /\ \A k \in 1..Len(NonEmptyMeshes) :
                  LET mesh == meshes[NonEmptyMeshes[k]]
                      blocks == Written(binds[k].group.buffer)
                      n == binds[k].offset \div SizeOfUniforms + 1
                  IN  /\ draws[k].first = UploadedBefore(k, "indices")
                      /\ draws[k].end - draws[k].first =
                           Len(mesh.buffers.indices)
                      /\ binds[k].offset % SizeOfUniforms = 0
                      /\ ~blocks.gap
                      /\ n \in DOMAIN blocks.mem
                      /\ blocks.mem[n].transform =
                           IntoArray(Mul(transformation,
                                         Translate(mesh.origin.x,
                                                   mesh.origin.y)))

\* A frame that skipped a mesh without vertices and drew the mesh after it,
\* with an ambient transformation other than the identity.
C11_Witness ==
    /\ Drawn
    /\ meshes = <<MeshNoVertices, MeshB>>
    /\ transformation # Identity

\* C12: the k-th draw of a frame draws the k-th uploaded mesh of the
\* input: its index range starts at the number of indices of the meshes
\* uploaded before it and is as long as its own index count, and its base
\* vertex is the number of vertices uploaded before it.  So the first range
\* starts at 0 and each range starts where the one before ends; the
\* indices in the range are those of the mesh, and every index, added to
\* the base vertex, selects the vertex of the mesh with that index.
C12_DrawRanges ==
    Drawn =>
        LET draws == OpsOf("draw_indexed")
        IN  /\ Len(draws) = Len(NonEmptyMeshes)
            /\ \A k \in 1..Len(draws) :
                  LET mesh == meshes[NonEmptyMeshes[k]]
                      is == mesh.buffers.indices
                      vs == mesh.buffers.vertices
                      d == draws[k]
                      imem ==
                          Written(OpsOf("set_index_buffer")[k].buffer).mem
                      vmem ==
                          Written(OpsOf("set_vertex_buffer")[k].buffer).mem
                  IN  /\ d.first = UploadedBefore(k, "indices")
                      /\ d.end = d.first + Len(is)
                      /\ d.base_vertex = UploadedBefore(k, "vertices")
                      /\ k = 1 => d.first = 0
                      /\ k > 1 => d.first = draws[k - 1].end
                      /\ d.end <= Len(imem)
                      /\ \A j \in 1..Len(is) :
                            /\ imem[d.first + j] = is[j]
                            /\ is[j] < Len(vs)
                            /\ vmem[d.base_vertex + is[j] + 1] = vs[is[j] + 1]

\* A frame of two uploaded meshes, the second after one with one vertex and
\* three indices.
C12_Witness ==
    /\ Drawn
    /\ meshes = <<MeshB, MeshA>>
    /\ Len(OpsOf("draw_indexed")) = 2

\* The writes of the frame into the buffer `raw`, in order.
WritesTo(raw) ==
    SelectSeq(recorded, LAMBDA r : r.op = "write_buffer" /\ r.buffer = raw)

\* C13: no write of a frame has length zero.  Only the meshes with both
\* vertices and indices are written, each by one vertex write and one
\* index write, so a mesh without vertices or without indices causes
\* neither; and the uniforms are written only if a block was collected.
C13_NoZeroLengthWrite ==
    Drawn =>
        /\ \A j \in OpsAt("write_buffer") :
              /\ recorded[j].size > 0
              /\ recorded[j].data.len = recorded[j].size
        /\ Len(WritesTo(vertex_buffer.raw)) = Len(NonEmptyMeshes)
        /\ Len(WritesTo(index_buffer.raw)) = Len(NonEmptyMeshes)
        /\ \A k \in 1..Len(NonEmptyMeshes) :
              LET mesh == meshes[NonEmptyMeshes[k]]
              IN  /\ WritesTo(vertex_buffer.raw)[k].data.elems =
                       mesh.buffers.vertices
                  /\ WritesTo(index_buffer.raw)[k].data.elems =
                       mesh.buffers.indices
        /\ Len(WritesTo(uniforms_buffer.raw)) =
             IF locals.uniforms = <<>> THEN 0 ELSE 1
        /\ Cardinality(OpsAt("write_buffer")) =
               Len(WritesTo(vertex_buffer.raw))
             + Len(WritesTo(index_buffer.raw))
             + Len(WritesTo(uniforms_buffer.raw))

\* A frame of one mesh with vertices and without indices: nothing at all
\* is written.
C13_Witness ==
    /\ Drawn
    /\ meshes = <<MeshNoIndices>>
    /\ OpsAt("write_buffer") = {}

----------------------------------------------------------------------------
(* Properties of frames that outgrow the buffers (specification SpecGrowth) *)

\* C2: in a frame that created a new uniform buffer, a bind group over the
\* new handle is created after it and before the render pass begins, and
\* every draw of the frame binds that bind group.
C2_RebindBeforeDraw ==
    \A j \in OpsAt("create_buffer") :
        KindOf(recorded[j].usage) = "UNIFORM" =>
            /\ locals.uniforms_resized
            /\ recorded[j].raw = uniforms_buffer.raw
            /\ \E k \in OpsAt("create_bind_group") :
                  /\ j < k
                  /\ \A b \in OpsAt("begin_render_pass") : k < b
                  /\ recorded[k].buffer = recorded[j].raw
                  /\ \A d \in OpsAt("set_bind_group") :
                        /\ k < d
                        /\ recorded[d].group.id = recorded[k].id
                        /\ recorded[d].group.buffer = recorded[j].raw

\* A frame that created a new uniform buffer and issued draws.
C2_Witness ==
    /\ \E j \in OpsAt("create_buffer") :
          KindOf(recorded[j].usage) = "UNIFORM"
    /\ OpsAt("set_bind_group") # {}

\* The write w ends inside the buffer b: inside the capacity b records, and
\* inside the bytes b was created with if this frame created it.
WithinCapacity(w, b) ==
    /\ w.offset >= 0
    /\ w.offset + w.size <= b.elem_size * b.size
    /\ \A j \in OpsAt("create_buffer") :
          recorded[j].raw = b.raw => w.offset + w.size <= recorded[j].size

\* C14: in every frame, every vertex write ends at or before
\* size_of(Vertex2D) * vertex_buffer.size, every index write at or before
\* 4 * index_buffer.size, the uniform write at or before
\* size_of(Uniforms) * uniforms_buffer.size, every write goes to one of the
\* three buffers, and the block at every dynamic offset bound by a draw
\* ends inside the uniforms written by the frame.
C14_WritesWithinCapacity ==
    Drawn =>
        /\ \A j \in OpsAt("write_buffer") :
              \E b \in {vertex_buffer, index_buffer, uniforms_buffer} :
                  /\ recorded[j].buffer = b.raw
                  /\ WithinCapacity(recorded[j], b)
        /\ vertex_buffer.elem_size = SizeOfVertex2D
        /\ index_buffer.elem_size = SizeOfU32
        /\ uniforms_buffer.elem_size = SizeOfUniforms
        /\ \A d \in OpsAt("set_bind_group") :
              /\ recorded[d].offset >= 0
              /\ \E j \in OpsAt("write_buffer") :
                    /\ recorded[j].buffer = uniforms_buffer.raw
                    /\ recorded[j].offset = 0
                    /\ recorded[d].offset + SizeOfUniforms <= recorded[j].size

\* A frame of more meshes than the uniforms buffer held at first, all
\* uploaded: the uniform write fills the grown buffer to its end.
C14_Witness ==
    /\ Drawn
    /\ uniforms_buffer.size > UNIFORM_BUFFER_SIZE
    /\ Len(locals.uniforms) = uniforms_buffer.size
    /\ Len(OpsOf("set_bind_group")) = uniforms_buffer.size

\* The handles the operations of the frame refer to: written, bound as
\* vertex or index buffer, or behind a bind group created or bound.
HandlesUsed ==
    {recorded[j].buffer :
        j \in OpsAt("write_buffer") \cup OpsAt("set_index_buffer")
              \cup OpsAt("set_vertex_buffer")
              \cup OpsAt("create_bind_group")}
    \cup {recorded[j].group.buffer : j \in OpsAt("set_bind_group")}

\* The bind group held refers to the uniforms buffer held, and what the
\* draws of the frame bind is what the pipeline holds and what the frame
\* wrote to.
HandlesCurrent ==
    /\ constants.buffer = uniforms_buffer.raw
    /\ \A j \in OpsAt("set_bind_group") : recorded[j].group = constants
    /\ \A j \in OpsAt("set_vertex_buffer") :
          recorded[j].buffer = vertex_buffer.raw
    /\ \A j \in OpsAt("set_index_buffer") :
          recorded[j].buffer = index_buffer.raw
    /\ \A j \in OpsAt("write_buffer") :
          recorded[j].buffer \in
              {vertex_buffer.raw, index_buffer.raw, uniforms_buffer.raw}
    /\ OpsAt("draw_indexed") # {} =>
          /\ WritesTo(vertex_buffer.raw) # <<>>
          /\ WritesTo(index_buffer.raw) # <<>>
          /\ WritesTo(uniforms_buffer.raw) # <<>>

\* A frame that replaces a buffer uses the handle it had before nowhere,
\* and the bind group is replaced exactly when the uniforms buffer is.
NoAbandonedHandle ==
    /\ \A b \in {<<uniforms_buffer, uniforms_buffer'>>,
                  <<vertex_buffer, vertex_buffer'>>,
                  <<index_buffer, index_buffer'>>} :
          b[2].raw # b[1].raw =>
              b[1].raw \notin HandlesUsed'
    /\ (constants' # constants) <=>
          (uniforms_buffer'.raw # uniforms_buffer.raw)

\* C15: after Pipeline::new and after every Pipeline::draw, the bind group
\* in `constants` refers to the handle in `uniforms_buffer`; the bind
\* group, vertex buffer and index buffer bound by the draws of a frame are
\* the handles the frame uploaded to; and no frame uses a handle that one
\* of its expand calls replaced.
C15_HandlesCurrent == []HandlesCurrent /\ [][NoAbandonedHandle]_vars

\* A frame with a draw and without growth, after earlier frames made the
\* uniforms buffer and the vertex buffer grow.
C15_Witness ==
    /\ OpsAt("draw_indexed") # {}
    /\ OpsAt("create_buffer") = {}
    /\ uniforms_buffer.size > UNIFORM_BUFFER_SIZE
    /\ vertex_buffer.size > VERTEX_BUFFER_SIZE

\* The stage of Pipeline::draw an operation belongs to.
Stage(r) ==
    CASE r.op \in {"create_buffer", "create_bind_group"} -> 1
      [] r.op = "write_buffer" -> 2
      [] r.op = "blit.targets" -> 3
      [] r.op = "begin_render_pass" -> 4
      [] r.op = "set_pipeline" -> 5
      [] r.op \in {"set_scissor_rect", "set_bind_group", "set_index_buffer",
                   "set_vertex_buffer", "draw_indexed"} -> 6
      [] r.op = "end_render_pass" -> 7
      [] r.op = "blit.draw" -> 8

\* The operations of one mesh in the draw loop, in order.
DrawGroup ==
    <<"set_scissor_rect", "set_bind_group", "set_index_buffer",
      "set_vertex_buffer", "draw_indexed">>

\* C16: the operations of one Pipeline::draw call come in stages: buffer
\* creation and the new bind group, then the vertex, index and uniform
\* writes (the uniform write last), then the one begin of the render pass,
\* then set_pipeline once, then for every drawn mesh scissor, bind group,
\* index buffer, vertex buffer and draw, then the end of the pass and, only
\* with antialiasing, the resolve.  So no write follows the begin of the
\* pass and no draw precedes set_pipeline.
C16_OperationOrder ==
    Drawn =>
        /\ \A j \in 1..(Len(recorded) - 1) :
              Stage(recorded[j]) <= Stage(recorded[j + 1])
        /\ Cardinality(OpsAt("begin_render_pass")) = 1
        /\ Cardinality(OpsAt("set_pipeline")) = 1
        /\ \A c \in OpsAt("create_bind_group") :
              \E j \in OpsAt("create_buffer") :
                  j < c /\ recorded[j].raw = recorded[c].buffer
        /\ \A j \in OpsAt("write_buffer"), k \in OpsAt("write_buffer") :
              (recorded[j].buffer = uniforms_buffer.raw
                 /\ recorded[k].buffer # uniforms_buffer.raw) => k < j
        /\ \A b \in OpsAt("begin_render_pass") :
              /\ recorded[b + 1].op = "set_pipeline"
              /\ \A j \in OpsAt("write_buffer") : j < b
              /\ \A j \in OpsAt("draw_indexed") : b + 1 < j
              /\ \A j \in (b + 2)..(b + 1 + 5 * Len(locals.offsets)) :
                    recorded[j].op = DrawGroup[((j - b - 2) % 5) + 1]
              /\ recorded[b + 2 + 5 * Len(locals.offsets)].op
                    = "end_render_pass"
        /\ OpsAt("blit.draw") # {} <=> blit = "Some"
        /\ \A j \in OpsAt("blit.draw") : j = Len(recorded)

\* A frame with antialiasing that made the uniforms buffer grow, uploaded,
\* drew and resolved.
C16_Witness ==
    /\ OpsAt("create_bind_group") # {}
    /\ OpsAt("write_buffer") # {}
    /\ OpsAt("draw_indexed") # {}
    /\ OpsAt("blit.draw") # {}

\* One frame's effect on a buffer that held `first` elements when the
\* pipeline was made and is asked for `demand` elements by the frame.
GrowsExactly(before, after, first, demand) ==
    /\ ~Drawn => before.size = first
    /\ before.size >= first
    /\ IF demand > before.size
       THEN /\ after.raw # before.raw
            /\ after.size = demand
       ELSE after = before

\* C9: a frame creates a new vertex buffer exactly when its total number of
\* vertices exceeds the capacity (VERTEX_BUFFER_SIZE at first), the new
\* capacity is that total, and otherwise the buffer is left as it is; the
\* same for the index buffer (INDEX_BUFFER_SIZE, total number of indices)
\* and the uniforms buffer (UNIFORM_BUFFER_SIZE, number of meshes).
C9_GrowOnlyWhenExceeded ==
    [][/\ GrowsExactly(vertex_buffer, vertex_buffer', VERTEX_BUFFER_SIZE,
                       locals'.total_vertices)
       /\ GrowsExactly(index_buffer, index_buffer', INDEX_BUFFER_SIZE,
                       locals'.total_indices)
       /\ GrowsExactly(uniforms_buffer, uniforms_buffer',
                       UNIFORM_BUFFER_SIZE, Len(meshes'))]_vars

\* A frame of 10,001 vertices drawn when the vertex buffer held 10,001
\* already: no buffer is created.
C9_Witness ==
    /\ Drawn
    /\ locals.total_vertices = VERTEX_BUFFER_SIZE + 1
    /\ vertex_buffer.size = VERTEX_BUFFER_SIZE + 1
    /\ OpsAt("create_buffer") = {}

====
